---------------------------- MODULE Spec2Model ----------------------------
(***************************************************************************)
(* A model of the Obiex API client (obiexhq/obiex-api-node).               *)
(*                                                                         *)
(* Three parts of the client are modelled:                                 *)
(*   - the request interceptor (requestConfig / sign) of both revisions of *)
(*     ObiexClient, with the transport's URL assembly;                     *)
(*   - getCurrencies and the lookups built on it, over the TTL cache;      *)
(*   - the response interceptor that turns error responses into            *)
(*     ServerError.                                                        *)
(*                                                                         *)
(* A JavaScript string is a sequence of one-character strings, so that     *)
(* concatenation, toUpperCase, startsWith and encodeURIComponent are       *)
(* computed character by character.                                        *)
(***************************************************************************)
EXTENDS Integers, Sequences, FiniteSets

VARIABLES
    seconds,    \* the wall clock: whole seconds since the epoch
    micros,     \* the wall clock: microseconds into the current second
    sent,       \* <<r>>: the request that last left a request interceptor
    prevSent,   \* <<r>>: some request that left an interceptor before `sent`
    entries,    \* entries[k][key]: <<>> or <<e>>, the entry of CacheService k
    calls,      \* calls[s]: the method call running in slot s
    net         \* net[s]: <<>> or <<r>>, the request of slot s awaiting its response

signVars == <<micros, sent, prevSent>>

callVars == <<seconds, entries, calls, net>>

vars == <<seconds, micros, sent, prevSent, entries, calls, net>>

-----------------------------------------------------------------------------
(* Bounds of the model *)

\* the wall clock stops here
MaxMicros == 10200

\* the microseconds of the wall clock at the start
StartMicros == 9200

\* the wall clock's seconds stop here
MaxSeconds == 86401

\* the number of method calls that can be in flight together
MaxCalls == 2

-----------------------------------------------------------------------------
(* Strings *)

LowerCase == <<"a","b","c","d","e","f","g","h","i","j","k","l","m","n","o","p","q","r","s","t","u","v","w","x","y","z">>

UpperCase == <<"A","B","C","D","E","F","G","H","I","J","K","L","M","N","O","P","Q","R","S","T","U","V","W","X","Y","Z">>

Digits == <<"0","1","2","3","4","5","6","7","8","9">>

\* String.prototype.toUpperCase, one character
UpperChar(c) ==
    IF \E i \in 1..Len(LowerCase) : LowerCase[i] = c
    THEN UpperCase[CHOOSE i \in 1..Len(LowerCase) : LowerCase[i] = c]
    ELSE c

toUpperCase(s) == [i \in 1..Len(s) |-> UpperChar(s[i])]

\* String.prototype.startsWith
startsWith(s, p) == Len(s) >= Len(p) /\ SubSeq(s, 1, Len(p)) = p

\* the decimal string of a non-negative integer, as a template literal prints it
RECURSIVE numberToString(_)
numberToString(n) ==
    IF n < 10 THEN <<Digits[n + 1]>>
    ELSE numberToString(n \div 10) \o <<Digits[(n % 10) + 1]>>

\* Array.prototype.join
RECURSIVE join(_, _)
join(items, sep) ==
    IF items = <<>> THEN <<>>
    ELSE IF Len(items) = 1 THEN items[1]
    ELSE items[1] \o sep \o join(Tail(items), sep)

\* the characters encodeURIComponent leaves alone
Unreserved ==
    {LowerCase[i] : i \in 1..Len(LowerCase)} \cup
    {UpperCase[i] : i \in 1..Len(UpperCase)} \cup
    {Digits[i] : i \in 1..Len(Digits)} \cup
    {"-", "_", ".", "!", "~", "*", "'", "(", ")"}

\* the percent escapes of the other characters that occur in the model
Escape(c) ==
    CASE c = "[" -> <<"%","5","B">>
      [] c = "]" -> <<"%","5","D">>
      [] c = "\"" -> <<"%","2","2">>
      [] c = "," -> <<"%","2","C">>
      [] c = " " -> <<"%","2","0">>
      [] c = "&" -> <<"%","2","6">>
      [] c = "=" -> <<"%","3","D">>
      [] c = "/" -> <<"%","2","F">>
      [] c = "?" -> <<"%","3","F">>
      [] c = "$" -> <<"%","2","4">>

RECURSIVE encodeURIComponent(_)
encodeURIComponent(s) ==
    IF s = <<>> THEN <<>>
    ELSE (IF Head(s) \in Unreserved THEN <<Head(s)>> ELSE Escape(Head(s)))
         \o encodeURIComponent(Tail(s))

\* whether p occurs in s as a contiguous substring
Contains(s, p) ==
    \E i \in 1..(Len(s) - Len(p) + 1) : SubSeq(s, i, i + Len(p) - 1) = p

-----------------------------------------------------------------------------
(* Clients *)

\* clients 1 and 3 are instances of the first revision of ObiexClient,
\* client 2 of the second revision
Clients == {1, 2, 3}

Revision(c) == IF c = 2 THEN 2 ELSE 1

apiKey(c) == IF c = 1 THEN <<"k","e","y","-","A">> ELSE IF c = 2 THEN <<"k","e","y","-","B">> ELSE <<"k","e","y","-","C">>

apiSecret(c) == IF c = 1 THEN <<"s","3","c","r","3","t">> ELSE IF c = 2 THEN <<"h","u","s","h">> ELSE <<"m","u","m">>

\* client 1 was constructed for production, client 2 for staging
sandboxMode(c) == c = 2

\* baseURL of the first revision: the host, and no path
baseURL(staging) ==
    [host |-> IF staging THEN "staging.api.obiex.finance"
              ELSE "api.obiex.finance",
     path |-> <<>>]

\* baseURL of the second revision: the host, and the version prefix as path
V2_baseURL(staging) ==
    [host |-> IF staging THEN "staging.api.obiex.finance"
              ELSE "api.obiex.finance",
     path |-> <<"/","v","1">>]

-----------------------------------------------------------------------------
(* Signing: ObiexClient.sign of both revisions *)

UsPerMs == 1000

MsPerSecond == 1000

\* Date.now(): the wall clock in whole milliseconds
DateNow == seconds * MsPerSecond + micros \div UsPerMs

\* createHmac("sha256", key).update(msg).digest("hex"): the digest is kept as
\* the pair it was computed from, so two digests are equal exactly when key
\* and message are (HMAC-SHA256 taken as collision free)
createHmac(key, msg) == [alg |-> "sha256", key |-> key, msg |-> msg]

\* sign with the method signed as given, not upper-cased
sign_KeepsCase(c, method, originalUrl, now) ==
    [timestamp |-> now,
     signature |-> createHmac(apiSecret(c),
                              method \o originalUrl \o numberToString(now))]

\* sign with the timestamp left out of the payload
sign_OmitsTimestamp(c, method, originalUrl, now) ==
    [timestamp |-> now,
     signature |-> createHmac(apiSecret(c), toUpperCase(method) \o originalUrl)]

\* sign of the first revision; `now` is the value Date.now() returns
sign(c, method, originalUrl, now) ==
    LET timestamp == now
        content == toUpperCase(method) \o originalUrl \o numberToString(timestamp)
    IN  [timestamp |-> timestamp,
         signature |-> createHmac(apiSecret(c), content)]

\* sign of the second revision
V2_sign(c, method, url, now) ==
    LET timestamp == now
        path == IF startsWith(url, <<"/">>) THEN url ELSE <<"/">> \o url
        content == toUpperCase(method) \o <<"/","v","1">> \o path
                   \o numberToString(timestamp)
    IN  [timestamp |-> timestamp,
         signature |-> createHmac(apiSecret(c), content)]

-----------------------------------------------------------------------------
(* Request configurations and the request interceptor *)

\* requestConfig.params when the request carries none
NoParams == [set |-> FALSE, entries |-> <<>>]

\* an object of query parameters: its entries in insertion order, each
\* <<key, value>>, value an array of strings or one string
Params(pairs) == [set |-> TRUE, entries |-> pairs]

Str(s) == [array |-> FALSE, items |-> <<s>>]

Arr(items) == [array |-> TRUE, items |-> items]

\* headers[name] = value
SetHeader(headers, name, value) ==
    [h \in (DOMAIN headers) \cup {name} |->
        IF h = name THEN value ELSE headers[h]]

\* stringifyKeyValuePair
stringifyKeyValuePair(pair) ==
    LET key == pair[1]
        value == pair[2]
        valueString ==
            IF value.array
            THEN <<"[","\"">> \o join(value.items, <<"\"",",","\"">>) \o <<"\"","]">>
            ELSE value.items[1]
    IN  key \o <<"=">> \o encodeURIComponent(valueString)

\* buildQueryString
buildQueryString(params) ==
    IF ~params.set THEN <<>>
    ELSE join([i \in 1..Len(params.entries) |->
                  stringifyKeyValuePair(params.entries[i])], <<"&">>)

\* the headers with the secret sent where the key belongs
WithAuthHeaders_SendsSecret(c, config, signed) ==
    LET h1 == SetHeader(config.headers, "Content-Type", "application/json")
        h2 == SetHeader(h1, "x-api-timestamp", signed.timestamp)
        h3 == SetHeader(h2, "x-api-signature", signed.signature)
        h4 == SetHeader(h3, "x-api-key", apiSecret(c))
    IN  [config EXCEPT !.headers = h4]

\* the four headers both revisions attach
WithAuthHeaders(c, config, signed) ==
    LET h1 == SetHeader(config.headers, "Content-Type", "application/json")
        h2 == SetHeader(h1, "x-api-timestamp", signed.timestamp)
        h3 == SetHeader(h2, "x-api-signature", signed.signature)
        h4 == SetHeader(h3, "x-api-key", apiKey(c))
    IN  [config EXCEPT !.headers = h4]

\* requestConfig of the first revision
requestConfig(c, config, now) ==
    WithAuthHeaders(c, config, sign(c, config.method, config.url, now))

\* requestConfig of the second revision with the parameters folded into the
\* URL and left on the request as well
V2_requestConfig_KeepsParams(c, config, now) ==
    LET folded ==
            IF config.params.set
            THEN [config EXCEPT
                    !.url = config.url \o <<"?">> \o buildQueryString(config.params)]
            ELSE config
    IN  WithAuthHeaders(c, folded, V2_sign(c, folded.method, folded.url, now))

\* requestConfig of the second revision
V2_requestConfig(c, config, now) ==
    LET folded ==
            IF config.params.set
            THEN [config EXCEPT
                    !.url = config.url \o <<"?">> \o buildQueryString(config.params),
                    !.params = NoParams]
            ELSE config
    IN  WithAuthHeaders(c, folded, V2_sign(c, folded.method, folded.url, now))

\* the interceptor the constructor registers
Interceptor(c, config, now) ==
    IF Revision(c) = 1 THEN requestConfig(c, config, now)
    ELSE V2_requestConfig(c, config, now)

-----------------------------------------------------------------------------
(* The endpoint methods: the request each hands to the HTTP client *)

\* this.client.get(url)
HttpGet(url) ==
    [method |-> <<"g","e","t">>, url |-> url, params |-> NoParams,
     headers |-> <<>>, data |-> <<>>]

\* this.client.post(url, data): data as its <<field, value>> pairs
HttpPost(url, data) ==
    [method |-> <<"p","o","s","t">>, url |-> url, params |-> NoParams,
     headers |-> <<>>, data |-> data]

\* the arguments the model calls the endpoint methods with
CurrencyIds == {<<"c","1">>}

QuoteIds == {<<"q","7">>}

TransactionIds == {<<"t","9">>}

Pages == {1}

PageSizes == {30}

\* a TransactionCategory, or <<>> when the argument is left out
Categories == {<<>>, <<"D","E","P","O","S","I","T">>}

Amounts == {5}

\* page and pageSize of the second revision, each optional: <<>> (undefined)
\* or <<n>>
V2_Paging == {<<<<>>, <<>>>>} \cup {<<<<p>>, <<n>>>> : p \in Pages, n \in PageSizes}

\* `${x}` of an optional number
Interpolate(x) == IF x = <<>> THEN <<"u","n","d","e","f","i","n","e","d">> ELSE numberToString(x[1])

getDepositAddress(currency, network, identifier) ==
    HttpPost(<<"/","v","1","/","a","d","d","r","e","s","s","e","s","/","b","r","o","k","e","r">>,
             <<<<<<"c","u","r","r","e","n","c","y">>, currency>>, <<<<"n","e","t","w","o","r","k">>, network>>,
               <<<<"p","u","r","p","o","s","e">>, identifier>>>>)

getTradePairs == HttpGet(<<"/","v","1","/","t","r","a","d","e","s","/","p","a","i","r","s">>)

getTradePairsByCurrency(currencyId) ==
    HttpGet(<<"/","v","1","/","c","u","r","r","e","n","c","i","e","s","/">> \o currencyId \o <<"/","p","a","i","r","s">>)

\* the request createQuote sends once both currencies are resolved
createQuoteRequest(sourceId, targetId, side, amount) ==
    HttpPost(<<"/","v","1","/","t","r","a","d","e","s","/","q","u","o","t","e">>,
             <<<<<<"s","o","u","r","c","e","I","d">>, sourceId>>, <<<<"t","a","r","g","e","t","I","d">>, targetId>>,
               <<<<"s","i","d","e">>, side>>, <<<<"a","m","o","u","n","t">>, numberToString(amount)>>>>)

acceptQuote(quoteId) == HttpPost(<<"/","v","1","/","t","r","a","d","e","s","/","q","u","o","t","e","/">> \o quoteId, <<>>)

withdrawCrypto(currencyCode, amount, wallet) ==
    HttpPost(<<"/","v","1","/","w","a","l","l","e","t","s","/","e","x","t","/","d","e","b","i","t","/","c","r","y","p","t","o">>,
             <<<<<<"a","m","o","u","n","t">>, numberToString(amount)>>,
               <<<<"c","u","r","r","e","n","c","y">>, currencyCode>>,
               <<<<"d","e","s","t","i","n","a","t","i","o","n">>, wallet>>>>)

withdrawNaira(amount, account) ==
    HttpPost(<<"/","v","1","/","w","a","l","l","e","t","s","/","e","x","t","/","d","e","b","i","t","/","f","i","a","t">>,
             <<<<<<"a","m","o","u","n","t">>, numberToString(amount)>>,
               <<<<"c","u","r","r","e","n","c","y">>, <<"N","G","N","X">>>>,
               <<<<"d","e","s","t","i","n","a","t","i","o","n">>, account>>>>)

getBanks == HttpGet(<<"/","v","1","/","n","g","n","-","p","a","y","m","e","n","t","s","/","b","a","n","k","s">>)

\* the request the producer inside getCurrencies sends
getCurrenciesRequest == HttpGet(<<"/","v","1","/","c","u","r","r","e","n","c","i","e","s">>)

\* the request getNetworks sends once the currency is resolved
getNetworksRequest(currencyId) ==
    HttpGet(<<"/","v","1","/","c","u","r","r","e","n","c","i","e","s","/">> \o currencyId \o <<"/","n","e","t","w","o","r","k","s">>)

getNairaMerchants(page, pageSize) ==
    HttpGet(<<"/","v","1","/","n","g","n","-","p","a","y","m","e","n","t","s","/","m","e","r","c","h","a","n","t","s","?","p","a","g","e","$","=">> \o numberToString(page)
            \o <<"&","p","a","g","e","S","i","z","e","=">> \o numberToString(pageSize))

getTransactionHistory(page, pageSize, category) ==
    HttpGet(<<"/","v","1","/","t","r","a","n","s","a","c","t","i","o","n","s","/","m","e","?","p","a","g","e","=">> \o numberToString(page)
            \o <<"&","p","a","g","e","S","i","z","e","=">> \o numberToString(pageSize)
            \o <<"&","c","a","t","e","g","o","r","y","=">> \o (IF category # <<>> THEN category ELSE <<>>))

getTradeHistory(page, pageSize) ==
    HttpGet(<<"/","v","1","/","t","r","a","d","e","s","/","m","e","?","p","a","g","e","=">> \o numberToString(page)
            \o <<"&","p","a","g","e","S","i","z","e","=">> \o numberToString(pageSize))

getTransactionById(transactionId) ==
    HttpGet(<<"/","v","1","/","t","r","a","n","s","a","c","t","i","o","n","s","/">> \o transactionId)

\* every request a method of the first revision sends
EndpointRequests ==
    {getDepositAddress(<<"B","T","C">>, <<"B","T","C">>, <<"u","s","e","r","-","1">>), getTradePairs, getBanks,
     getCurrenciesRequest,
     withdrawCrypto(<<"B","T","C">>, 5, <<"b","c","1","q">>), withdrawNaira(5, <<"0","1","2","3","4","5","6","7","8","9">>)}
    \cup {getTradePairsByCurrency(id) : id \in CurrencyIds}
    \cup {createQuoteRequest(s, t, <<"B","U","Y">>, a) :
            s \in CurrencyIds, t \in CurrencyIds, a \in Amounts}
    \cup {acceptQuote(q) : q \in QuoteIds}
    \cup {getNetworksRequest(id) : id \in CurrencyIds}
    \cup {getNairaMerchants(p, n) : p \in Pages, n \in PageSizes}
    \cup {getTransactionHistory(p, n, k) :
            p \in Pages, n \in PageSizes, k \in Categories}
    \cup {getTradeHistory(p, n) : p \in Pages, n \in PageSizes}
    \cup {getTransactionById(t) : t \in TransactionIds}

(* The methods of the second revision *)

V2_getTradePairs == HttpGet(<<"/","t","r","a","d","e","s","/","p","a","i","r","s">>)

V2_getTradePairsByCurrency(currencyId) ==
    HttpGet(<<"/","c","u","r","r","e","n","c","i","e","s","/">> \o currencyId \o <<"/","p","a","i","r","s">>)

V2_createQuote(sourceId, targetId, side, amount) ==
    HttpPost(<<"/","t","r","a","d","e","s","/","q","u","o","t","e">>,
             <<<<<<"s","o","u","r","c","e","I","d">>, sourceId>>, <<<<"t","a","r","g","e","t","I","d">>, targetId>>,
               <<<<"s","i","d","e">>, side>>, <<<<"a","m","o","u","n","t">>, numberToString(amount)>>>>)

V2_acceptQuote(quoteId) == HttpPost(<<"/","t","r","a","d","e","s","/","q","u","o","t","e","/">> \o quoteId, <<>>)

V2_withdrawCrypto(currencyCode, amount, walletAddress, network, memo) ==
    HttpPost(<<"/","w","a","l","l","e","t","s","/","e","x","t","/","d","e","b","i","t","/","c","r","y","p","t","o">>,
             <<<<<<"a","m","o","u","n","t">>, numberToString(amount)>>,
               <<<<"c","u","r","r","e","n","c","y">>, currencyCode>>,
               <<<<"d","e","s","t","i","n","a","t","i","o","n",".","a","d","d","r","e","s","s">>, walletAddress>>,
               <<<<"d","e","s","t","i","n","a","t","i","o","n",".","n","e","t","w","o","r","k">>, network>>,
               <<<<"d","e","s","t","i","n","a","t","i","o","n",".","m","e","m","o">>, memo>>>>)

V2_withdrawNaira(currencyCode, amount, account) ==
    HttpPost(<<"/","w","a","l","l","e","t","s","/","e","x","t","/","d","e","b","i","t","/","f","i","a","t">>,
             <<<<<<"a","m","o","u","n","t">>, numberToString(amount)>>,
               <<<<"c","u","r","r","e","n","c","y">>, currencyCode>>,
               <<<<"d","e","s","t","i","n","a","t","i","o","n">>, account>>>>)

V2_getBanks == HttpGet(<<"/","n","g","n","-","p","a","y","m","e","n","t","s","/","b","a","n","k","s">>)

V2_getCurrencies == HttpGet(<<"/","c","u","r","r","e","n","c","i","e","s">>)

V2_getNetworks(currencyId) ==
    HttpGet(<<"/","c","u","r","r","e","n","c","i","e","s","/">> \o currencyId \o <<"/","n","e","t","w","o","r","k","s">>)

V2_getNairaMerchants(page, pageSize) ==
    HttpGet(<<"/","n","g","n","-","p","a","y","m","e","n","t","s","/","m","e","r","c","h","a","n","t","s","?","p","a","g","e","$","=">> \o Interpolate(page)
            \o <<"&","p","a","g","e","S","i","z","e","=">> \o Interpolate(pageSize))

V2_getTransactionHistory(page, pageSize, category) ==
    HttpGet(<<"/","t","r","a","n","s","a","c","t","i","o","n","s","/","m","e","?","p","a","g","e","=">> \o Interpolate(page)
            \o <<"&","p","a","g","e","S","i","z","e","=">> \o Interpolate(pageSize)
            \o <<"&","c","a","t","e","g","o","r","y","=">> \o (IF category = <<>> THEN <<"u","n","d","e","f","i","n","e","d">>
                                 ELSE category))

V2_getTradeHistory(page, pageSize) ==
    HttpGet(<<"/","t","r","a","d","e","s","/","m","e","?","p","a","g","e","=">> \o Interpolate(page)
            \o <<"&","p","a","g","e","S","i","z","e","=">> \o Interpolate(pageSize))

V2_getTransactionById(transactionId) ==
    HttpGet(<<"/","t","r","a","n","s","a","c","t","i","o","n","s","/">> \o transactionId)

\* every request a method of the second revision sends
V2_EndpointRequests ==
    {V2_getTradePairs, V2_getBanks, V2_getCurrencies,
     V2_withdrawCrypto(<<"B","T","C">>, 5, <<"b","c","1","q">>, <<"B","T","C">>, <<"m","1">>),
     V2_withdrawNaira(<<"N","G","N","X">>, 5, <<"0","1","2","3","4","5","6","7","8","9">>)}
    \cup {V2_getTradePairsByCurrency(id) : id \in CurrencyIds}
    \cup {V2_createQuote(s, t, <<"S","E","L","L">>, a) :
            s \in CurrencyIds, t \in CurrencyIds, a \in Amounts}
    \cup {V2_acceptQuote(q) : q \in QuoteIds}
    \cup {V2_getNetworks(id) : id \in CurrencyIds}
    \cup {V2_getNairaMerchants(a[1], a[2]) : a \in V2_Paging}
    \cup {V2_getTransactionHistory(a[1], a[2], k) :
            a \in V2_Paging, k \in Categories}
    \cup {V2_getTradeHistory(a[1], a[2]) : a \in V2_Paging}
    \cup {V2_getTransactionById(t) : t \in TransactionIds}

\* requests that carry query parameters, as the interceptor of the second
\* revision accepts them: the documented array form, two scalar parameters,
\* a value that needs escaping, an empty object, and a URL with no leading "/"
V2_ParamRequests ==
    {[HttpGet(<<"/","t","r","a","d","e","s","/","p","a","i","r","s">>) EXCEPT
        !.params = Params(<<<<<<"s","y","m","b","o","l","s">>, Arr(<<<<"B","T","C","U","S","D","T">>, <<"B","N","B","B","T","C">>>>)>>>>)],
     [HttpGet(<<"/","t","r","a","d","e","s","/","m","e">>) EXCEPT
        !.params = Params(<<<<<<"p","a","g","e">>, Str(<<"1">>)>>, <<<<"p","a","g","e","S","i","z","e">>, Str(<<"3","0">>)>>>>)],
     [HttpGet(<<"t","r","a","d","e","s","/","m","e">>) EXCEPT !.params = Params(<<<<<<"q">>, Str(<<"a"," ","b">>)>>>>)],
     [HttpGet(<<"/","t","r","a","d","e","s","/","p","a","i","r","s">>) EXCEPT !.params = Params(<<>>)]}

-----------------------------------------------------------------------------
(* The transport: what axios puts on the wire for a configuration *)

RECURSIVE StripLeadingSlashes(_)
StripLeadingSlashes(s) ==
    IF s # <<>> /\ Head(s) = "/" THEN StripLeadingSlashes(Tail(s)) ELSE s

RECURSIVE StripTrailingSlashes(_)
StripTrailingSlashes(s) ==
    IF s # <<>> /\ s[Len(s)] = "/"
    THEN StripTrailingSlashes(SubSeq(s, 1, Len(s) - 1)) ELSE s

\* axios joins baseURL and the relative URL with exactly one "/"
combineURLs(base, relativeURL) ==
    IF relativeURL = <<>> THEN base
    ELSE StripTrailingSlashes(base) \o <<"/">> \o StripLeadingSlashes(relativeURL)

\* axios serializes params still on the configuration itself: repeated
\* key[]=item for an array, appended after "?" (or "&" when the URL has a "?")
AxiosSerialize(pairs) ==
    LET one(pair) ==
            IF pair[2].array
            THEN join([i \in 1..Len(pair[2].items) |->
                         pair[1] \o <<"[","]","=">> \o encodeURIComponent(pair[2].items[i])],
                      <<"&">>)
            ELSE pair[1] \o <<"=">> \o encodeURIComponent(pair[2].items[1])
    IN  join([i \in 1..Len(pairs) |-> one(pairs[i])], <<"&">>)

\* the client's baseURL
BaseOf(c, staging) ==
    IF Revision(c) = 1 THEN baseURL(staging) ELSE V2_baseURL(staging)

\* the path and query of the request line the server receives
TransmittedPath(c, config) ==
    LET full == combineURLs(BaseOf(c, FALSE).path, config.url)
        query == IF config.params.set THEN AxiosSerialize(config.params.entries)
                 ELSE <<>>
    IN  IF query = <<>> THEN full
        ELSE full \o (IF Contains(full, <<"?">>) THEN <<"&">> ELSE <<"?">>) \o query

-----------------------------------------------------------------------------
(* Promises, responses and errors *)

\* how an awaited promise settles: resolved with a value or rejected with an
\* error
Resolved(v) == [ok |-> TRUE, value |-> <<v>>, error |-> <<>>]

Rejected(e) == [ok |-> FALSE, value |-> <<>>, error |-> <<e>>]

\* obj[name] of a JavaScript object: <<v>>, or <<>> (undefined) when the
\* object has no such property
Prop(obj, name) == IF name \in DOMAIN obj THEN <<obj[name]>> ELSE <<>>

\* the response object axios builds: the parsed body in data (<<>> when the
\* body is empty) and the HTTP status
Response(status, data) == [status |-> status, data |-> data]

\* the error axios rejects with: its own message, and the response when the
\* server sent one
AxiosError(message, response) ==
    [name |-> "AxiosError", message |-> <<message>>, response |-> response]

\* new ServerError(message, data, statusCode)
ServerError(message, data, statusCode) ==
    [name |-> "ServerError", message |-> message, data |-> data,
     statusCode |-> statusCode]

\* the rejection handler of the response interceptor
onRejected(error) ==
    IF error.response # <<>> /\ error.response[1].data # <<>>
    THEN Rejected(ServerError(Prop(error.response[1], "message"),
                              error.response[1].data,
                              Prop(error.response[1], "status")))
    ELSE Rejected(error)

\* what this.client.get / this.client.post settles with for a reply: a 2xx
\* response resolves, anything else is rejected through the response
\* interceptor
HttpSettle(reply) ==
    IF reply.response # <<>> /\ reply.response[1].status \in 200..299
    THEN Resolved(reply.response[1])
    ELSE onRejected(AxiosError(reply.message, reply.response))

\* the replies of the remote service
Success(data) == [message |-> "", response |-> <<Response(200, <<data>>)>>]

\* an error response with a structured body: a message and a data payload
ErrorBody(message) == [message |-> <<message>>, data |-> <<<<"d","e","t","a","i","l">>>>]

ErrorWithBody(status) ==
    [message |-> "Request failed with status code",
     response |-> <<Response(status,
                             <<ErrorBody("Invalid signature")>>)>>]

\* an error response with an empty body
ErrorWithoutBody == [message |-> "Request failed", response |-> <<Response(502, <<>>)>>]

\* no response at all
NetworkError == [message |-> "Network Error", response |-> <<>>]

Failures == {ErrorWithBody(401), ErrorWithoutBody, NetworkError}

\* the failures the cache machine draws from
CacheFailures == {ErrorWithBody(401), NetworkError}

-----------------------------------------------------------------------------
(* The TTL cache *)



\* getCurrencies with no time to live
getCurrencies_args_NoTtl == [key |-> "currencies", ttl |-> 0]

\* one CacheService shared by every client
cacheService_Shared(c) == 1

\* the CacheService instance the constructor of client c creates
cacheService(c) == c

\* the clients with a cache, and their caches
CacheClients == {c \in Clients : Revision(c) = 1}

CacheIds == {cacheService(c) : c \in CacheClients}

\* the key and the TTL getCurrencies calls getOrSet with
getCurrencies_args == [key |-> "currencies", ttl |-> 86400]

\* the keys in use, and the TTLs of direct calls of cacheService.getOrSet
Keys == {"currencies"}

DirectTtls == {0}

\* getOrSet, steps 1 and 2: <<value>> when the entry under key is fresh at
\* time t, <<>> when it is absent or stale
getOrSet_lookup(cacheEntries, key, t) ==
    IF cacheEntries[key] # <<>> /\ t < cacheEntries[key][1].expiresAt
    THEN <<cacheEntries[key][1].value>>
    ELSE <<>>

\* getOrSet, step 3: the mapping after the produced value is stored at time t
getOrSet_store(cacheEntries, key, value, t, ttlSeconds) ==
    [cacheEntries EXCEPT
        ![key] = <<[value |-> value, expiresAt |-> t + ttlSeconds]>>]

\* the producer with its return statement missing: it resolves with nothing
getCurrencies_producer_ReturnsNothing(settled) ==
    IF settled.ok THEN Resolved(<<>>) ELSE settled

\* the producer catching the request's failure and resolving with no currencies
getCurrencies_producer_Swallows(settled) ==
    IF settled.ok THEN Resolved(settled.value[1].data[1]) ELSE Resolved(<<>>)

\* the producer getCurrencies passes: the body of GET /v1/currencies, or the
\* request's failure
getCurrencies_producer(settled) ==
    IF settled.ok THEN Resolved(settled.value[1].data[1]) ELSE settled

\* Array.prototype.find over a list of records, by one field: <<x>> for the
\* first match, <<>> (undefined) when there is none
RECURSIVE find(_, _, _)
find(list, field, wanted) ==
    IF list = <<>> THEN <<>>
    ELSE IF Head(list)[field] = wanted THEN <<Head(list)>>
    ELSE find(Tail(list), field, wanted)

-----------------------------------------------------------------------------
(* The data of the remote service *)

BTC == [id |-> <<"c","1">>, code |-> <<"B","T","C">>]

NGNX == [id |-> <<"c","2">>, code |-> <<"N","G","N","X">>]

DOGE == [id |-> <<"c","3">>, code |-> <<"D","O","G","E">>]

\* the currency lists GET /v1/currencies answers with
CurrencyLists == {<<BTC, NGNX>>, <<BTC, NGNX, DOGE>>}

\* the codes looked up
Codes == {<<"B","T","C">>, <<"D","O","G","E">>}

\* the trade lists GET /v1/trades/me answers with, and the ids looked up
TradeLists == {<<[id |-> <<"t","1">>], [id |-> <<"t","2">>]>>, <<>>}

TradeIds == {<<"t","2">>, <<"t","3">>}

-----------------------------------------------------------------------------
(* Method calls *)

Slots == 1..MaxCalls

Idle ==
    [phase |-> "idle", client |-> 0, op |-> "none", key |-> "", ttl |-> 0,
     arg |-> <<>>, observed |-> <<>>, invoked |-> 0, reply |-> <<>>,
     result |-> <<>>, error |-> <<>>]

\* getCurrencyByCode with the lookup raising an error when nothing matches
getCurrencyByCode_then_Throws(currencies, code) ==
    IF find(currencies, "code", code) = <<>>
    THEN Rejected([name |-> "Error", message |-> <<"currency not found">>])
    ELSE Resolved(find(currencies, "code", code))

\* getCurrencyByCode, after the currencies are awaited
getCurrencyByCode_then(currencies, code) ==
    Resolved(find(currencies, "code", code))

\* getTradeById, after the trade history is awaited
getTradeById_then(trades, tradeId) ==
    Resolved(find(trades, "id", tradeId))

\* how the method settles once the currency list it awaited is there
Finish(op, arg, currencies) ==
    IF op = "getCurrencyByCode" THEN getCurrencyByCode_then(currencies, arg)
    ELSE Resolved(currencies)

\* the call with the outcome it settles with
Settled(call, reply, outcome) ==
    IF outcome.ok
    THEN [call EXCEPT !.phase = "done", !.observed = <<>>, !.reply = reply,
                      !.result = outcome.value]
    ELSE [call EXCEPT !.phase = "failed", !.observed = <<>>, !.reply = reply,
                      !.error = outcome.error]

\* cacheService.getOrSet(key, producer, ttl) up to its first await: a fresh
\* entry is returned, otherwise the producer is invoked; `request` is the
\* request the producer sends, <<>> for a producer of the caller's own
StartCached(s, c, op, arg, key, ttl, request) ==
    /\ calls[s].phase = "idle"
    /\ LET hit == getOrSet_lookup(entries[cacheService(c)], key, seconds)
           call == [Idle EXCEPT !.client = c, !.op = op, !.arg = arg,
                                !.key = key, !.ttl = ttl,
                                !.observed = entries[cacheService(c)][key]]
       IN  IF hit # <<>>
           THEN /\ calls' = [calls EXCEPT ![s] =
                        Settled(call, <<>>, Finish(op, arg, hit[1]))]
                /\ UNCHANGED net
           ELSE /\ calls' = [calls EXCEPT ![s] =
                        [call EXCEPT !.phase = "awaiting", !.invoked = 1]]
                /\ net' = [net EXCEPT ![s] =
                        IF request = <<>> THEN <<>>
                        ELSE <<Interceptor(c, request[1], DateNow)>>]
    /\ UNCHANGED <<seconds, entries>>
    /\ UNCHANGED signVars

getCurrencies(s, c) ==
    StartCached(s, c, "getCurrencies", <<>>, getCurrencies_args.key,
                getCurrencies_args.ttl, <<getCurrenciesRequest>>)

getCurrencyByCode(s, c, code) ==
    StartCached(s, c, "getCurrencyByCode", code, getCurrencies_args.key,
                getCurrencies_args.ttl, <<getCurrenciesRequest>>)

\* a direct call of the public cacheService.getOrSet with a producer of the
\* caller's own
getOrSet(s, c, key, ttl) ==
    StartCached(s, c, "getOrSet", <<>>, key, ttl, <<>>)

\* getTradeById: getTradeHistory() with its default page and page size
getTradeById(s, c, tradeId) ==
    /\ calls[s].phase = "idle"
    /\ calls' = [calls EXCEPT ![s] =
            [Idle EXCEPT !.phase = "awaiting", !.client = c,
                         !.op = "getTradeById", !.arg = tradeId]]
    /\ net' = [net EXCEPT ![s] = <<Interceptor(c, getTradeHistory(1, 30), DateNow)>>]
    /\ UNCHANGED <<seconds, entries>>
    /\ UNCHANGED signVars

\* the producer of the call in slot s has settled with `produced`: getOrSet
\* stores a produced value and returns it, and lets a failure through
SettleCached(s, reply, produced) ==
    LET call == calls[s]
        k == cacheService(call.client)
    IN  /\ IF produced.ok
           THEN /\ entries' = [entries EXCEPT ![k] =
                        getOrSet_store(@, call.key, produced.value[1], seconds, call.ttl)]
                /\ calls' = [calls EXCEPT ![s] =
                        Settled(call, reply,
                                Finish(call.op, call.arg, produced.value[1]))]
           ELSE /\ calls' = [calls EXCEPT ![s] = Settled(call, reply, produced)]
                /\ UNCHANGED entries
        /\ net' = [net EXCEPT ![s] = <<>>]
        /\ UNCHANGED seconds
        /\ UNCHANGED signVars

\* the remote service answers the request of slot s
Respond(s, reply) ==
    /\ net[s] # <<>>
    /\ LET call == calls[s]
           settled == HttpSettle(reply)
       IN  IF call.op = "getTradeById"
           THEN /\ calls' = [calls EXCEPT ![s] =
                        Settled(call, <<reply>>,
                                IF settled.ok
                                THEN getTradeById_then(settled.value[1].data[1], call.arg)
                                ELSE settled)]
                /\ net' = [net EXCEPT ![s] = <<>>]
                /\ UNCHANGED <<seconds, entries>>
                /\ UNCHANGED signVars
           ELSE SettleCached(s, <<reply>>, getCurrencies_producer(settled))

RespondSuccess(s) ==
    \E data \in (IF calls[s].op = "getTradeById" THEN TradeLists ELSE CurrencyLists) :
        Respond(s, Success(data))

RespondFailure(s, failures) == \E reply \in failures : Respond(s, reply)

\* the values and the error a caller's own producer settles with
DirectValues == {<<BTC, NGNX>>}

\* the caller's own producer settles
CallerError == [name |-> "Error", message |-> <<"producer failed">>]

ProducerSettles(s) ==
    /\ calls[s].phase = "awaiting"
    /\ calls[s].op = "getOrSet"
    /\ \E produced \in {Resolved(v) : v \in DirectValues} \cup {Rejected(CallerError)} :
          SettleCached(s, <<>>, produced)

\* the caller takes the outcome; the slot is free for the next call
Return(s) ==
    /\ calls[s].phase \in {"done", "failed"}
    /\ calls' = [calls EXCEPT ![s] = Idle]
    /\ UNCHANGED <<seconds, entries, net>>
    /\ UNCHANGED signVars

\* time passes: a day less a second, a day, a day and a second
SecondSteps == {86399, 86400, 86401}

Advance ==
    \E d \in SecondSteps :
        /\ seconds + d <= MaxSeconds
        /\ seconds' = seconds + d
        /\ UNCHANGED <<entries, calls, net>>
        /\ UNCHANGED signVars

Init ==
    /\ seconds = 0
    /\ micros = StartMicros
    /\ sent = <<>>
    /\ prevSent = <<>>
    /\ entries = [k \in CacheIds |-> [key \in Keys |-> <<>>]]
    /\ calls = [s \in Slots |-> Idle]
    /\ net = [s \in Slots |-> <<>>]

\* the cache machine: getCurrencies and direct getOrSet calls of two clients
Next ==
    \/ Advance
    \/ \E s \in Slots, c \in CacheClients : getCurrencies(s, c)
    \/ \E s \in Slots, key \in Keys, ttl \in DirectTtls : getOrSet(s, 1, key, ttl)
    \/ \E s \in Slots : RespondSuccess(s)
    \/ \E s \in Slots : RespondFailure(s, CacheFailures)
    \/ \E s \in Slots : ProducerSettles(s)
    \/ \E s \in Slots : Return(s)

Spec == Init /\ [][Next]_vars

\* the lookup machine: the lookups of one client over fetched collections
LookupNext ==
    \/ Advance
    \/ \E s \in Slots, code \in Codes : getCurrencyByCode(s, 1, code)
    \/ \E s \in Slots, id \in TradeIds : getTradeById(s, 1, id)
    \/ \E s \in Slots : RespondSuccess(s)
    \/ \E s \in Slots : RespondFailure(s, Failures)
    \/ \E s \in Slots : Return(s)

SpecLookup == Init /\ [][LookupNext]_vars
-----------------------------------------------------------------------------
(* Claims about the cache *)

\* a call starts in slot s in this step / the call of slot s settles in it
Starts(s) == calls[s].phase = "idle" /\ calls'[s].phase # "idle"

Settles(s) == calls[s].phase = "awaiting" /\ calls'[s].phase \in {"done", "failed"}

\* the calls that go through getOrSet themselves
CacheOps == {"getCurrencies", "getOrSet"}

\* the entry a client's cache holds under a key
EntryOf(c, key) == entries[cacheService(c)][key]

\* whether entry e (<<>> or <<e>>) is fresh at time t
FreshAt(e, t) == e # <<>> /\ t < e[1].expiresAt

\* what the producer of a settled call produced: the body of its response,
\* or for a producer of the caller's own the value the call returned
Produced(call) ==
    IF call.op = "getCurrencies" THEN call.reply[1].response[1].data[1]
    ELSE call.result[1]

\* C1: a getOrSet call on a key whose entry is fresh returns the stored value
\* at once, invokes no producer, sends nothing and leaves the entries as they
\* are; and the entry a getCurrencies call stores is fresh for the 24 hours
\* that follow, so the calls within them are such hits.
C1_HitIsReadThrough ==
    [][\A s \in Slots :
        /\ (/\ Starts(s)
            /\ calls'[s].op \in CacheOps
            /\ FreshAt(EntryOf(calls'[s].client, calls'[s].key), seconds))
           => /\ calls'[s].phase = "done"
              /\ calls'[s].invoked = 0
              /\ calls'[s].result
                   = <<EntryOf(calls'[s].client, calls'[s].key)[1].value>>
              /\ entries' = entries
              /\ net' = net
        /\ (/\ Settles(s)
            /\ calls'[s].phase = "done"
            /\ calls[s].op = "getCurrencies")
           => \A t \in {seconds, seconds + 86399} :
                 getOrSet_lookup(entries'[cacheService(calls[s].client)],
                                 "currencies", t) = calls'[s].result
      ]_vars

\* a getCurrencies call returned from the cache a day less a second after
\* the entry was stored
C1_Witness ==
    \E s \in Slots :
        /\ calls[s].phase = "done"
        /\ calls[s].op = "getCurrencies"
        /\ calls[s].invoked = 0
        /\ seconds = 86399
        /\ EntryOf(calls[s].client, "currencies") # <<>>
        /\ EntryOf(calls[s].client, "currencies")[1].expiresAt = 86400

\* C2: a getOrSet call on a key whose entry is absent or no longer fresh
\* (the clock has reached expiresAt) invokes the producer once, and for
\* getCurrencies sends one GET /v1/currencies; when the producer succeeds the
\* entry becomes the produced value with expiresAt = now + ttl (86400 for
\* getCurrencies), the value is returned, and no further request is sent.
C2_MissInvokesProducerOnce ==
    [][\A s \in Slots :
        /\ (/\ Starts(s)
            /\ calls'[s].op \in CacheOps
            /\ ~FreshAt(EntryOf(calls'[s].client, calls'[s].key), seconds))
           => /\ calls'[s].phase = "awaiting"
              /\ calls'[s].invoked = 1
              /\ entries' = entries
              /\ \A o \in Slots \ {s} : net'[o] = net[o]
              /\ IF calls'[s].op = "getCurrencies"
                 THEN /\ net'[s] # <<>>
                      /\ net'[s][1].method = <<"g","e","t">>
                      /\ net'[s][1].url = <<"/","v","1","/","c","u","r","r","e","n","c","i","e","s">>
                 ELSE net'[s] = <<>>
        /\ (/\ Settles(s)
            /\ calls'[s].phase = "done"
            /\ calls[s].op \in CacheOps)
           => /\ entries'[cacheService(calls[s].client)][calls[s].key]
                   = <<[value |-> Produced(calls'[s]),
                        expiresAt |-> seconds + calls[s].ttl]>>
              /\ calls[s].op = "getCurrencies" => calls[s].ttl = 86400
              /\ calls'[s].result = <<Produced(calls'[s])>>
              /\ calls'[s].invoked = 1
              /\ net' = [net EXCEPT ![s] = <<>>]
      ]_vars

\* a day and a second after a getCurrencies call stored an entry at the
\* start, a call finds that entry expired and fetches again
C2_Witness ==
    /\ seconds = 86401
    /\ \E s \in Slots :
          /\ calls[s].phase = "awaiting"
          /\ calls[s].op = "getCurrencies"
          /\ calls[s].observed # <<>>
          /\ calls[s].observed[1].expiresAt = 86400
          /\ calls[s].invoked = 1
          /\ net[s] # <<>>

\* the failure the producer of the call in slot s ends with, given the failed
\* call: what the request was rejected with, or the caller's own error
ProducerFailure(call) ==
    IF call.op = "getCurrencies" THEN HttpSettle(call.reply[1]).error
    ELSE <<CallerError>>

\* whether the producer of the call that settles in slot s in this step
\* failed: for getCurrencies, whether its request did
ProducerFailed(s) ==
    IF calls[s].op = "getCurrencies" THEN ~HttpSettle(calls'[s].reply[1]).ok
    ELSE calls'[s].phase = "failed"

C4_NoSingleFlight ==
    /\ [](\A s \in Slots :
            (calls[s].phase = "awaiting" /\ calls[s].op \in CacheOps)
            => /\ calls[s].invoked = 1
               /\ ~FreshAt(calls[s].observed, seconds)
               /\ calls[s].op = "getCurrencies" => net[s] # <<>>)
    /\ [][\A s \in Slots :
            (Settles(s) /\ calls'[s].phase = "done" /\ calls[s].op \in CacheOps)
            => /\ EntryOf(calls[s].client, calls[s].key)'
                    = <<[value |-> Produced(calls'[s]),
                         expiresAt |-> seconds + calls[s].ttl]>>
               /\ \A o \in Slots \ {s} : calls'[o] = calls[o] /\ net'[o] = net[o]
         ]_vars

\* two getCurrencies calls of one client found the key absent; one has
\* stored its result, the other is still in flight with its own request
C4_Witness ==
    \E s1, s2 \in Slots :
        /\ calls[s1].phase = "done" /\ calls[s1].op = "getCurrencies"
        /\ calls[s1].invoked = 1
        /\ calls[s2].phase = "awaiting" /\ calls[s2].op = "getCurrencies"
        /\ calls[s2].client = calls[s1].client
        /\ calls[s2].observed = <<>>
        /\ net[s2] # <<>>
        /\ FreshAt(EntryOf(calls[s1].client, "currencies"), seconds)

\* C10: two clients never have the same cache, and the entries a client's
\* cache holds change only when a call of that client settles.
C10_CachesAreIsolated ==
    /\ [](\A a, b \in CacheClients : a # b => cacheService(a) # cacheService(b))
    /\ [][\A c \in CacheClients :
            (\E key \in Keys : EntryOf(c, key)' # EntryOf(c, key))
            => \E s \in Slots : Settles(s) /\ calls[s].client = c
         ]_vars

\* one client's cache holds a fresh entry while a call of the other client
\* finds nothing and fetches for itself
C10_Witness ==
    \E a, b \in CacheClients, s \in Slots :
        /\ a # b
        /\ FreshAt(EntryOf(a, "currencies"), seconds)
        /\ EntryOf(b, "currencies") = <<>>
        /\ calls[s].client = b
        /\ calls[s].phase = "awaiting"
        /\ calls[s].op = "getCurrencies"
        /\ net[s] # <<>>

-----------------------------------------------------------------------------
(* The signing machine: requests leaving the interceptors as time passes *)

\* the steps the wall clock advances by: less than a millisecond, and a
\* whole one
TickSteps == {400, UsPerMs}

\* the requests on record
Wire == {sent[i] : i \in 1..Len(sent)} \cup {prevSent[i] : i \in 1..Len(prevSent)}


Tick ==
    \E d \in TickSteps :
        /\ micros + d <= MaxMicros
        /\ micros' = micros + d
        /\ UNCHANGED <<sent, prevSent>>
        /\ UNCHANGED callVars

\* client c hands `config` to its HTTP client: the request interceptor runs,
\* reading the clock once, and the result goes to the transport
Send(c, config) ==
    /\ sent' = <<[client |-> c,
                  at |-> [seconds |-> seconds, micros |-> micros],
                  host |-> BaseOf(c, sandboxMode(c)).host,
                  request |-> config,
                  config |-> Interceptor(c, config, DateNow)]>>
    /\ prevSent' \in {prevSent, sent}
    /\ UNCHANGED micros
    /\ UNCHANGED callVars

\* a method of the first revision is called
Request == \E config \in EndpointRequests : Send(1, config)

\* a method of the second revision is called
V2_Request == \E config \in V2_EndpointRequests : Send(2, config)

\* a request with query parameters reaches the second revision's interceptor
V2_RequestWithParams == \E config \in V2_ParamRequests : Send(2, config)

SignNext == Tick \/ Request \/ V2_Request \/ V2_RequestWithParams

SpecSign == Init /\ [][SignNext]_vars

-----------------------------------------------------------------------------
(* Claims about signing *)

AuthHeaders == {"Content-Type", "x-api-key", "x-api-timestamp", "x-api-signature"}

\* the path inside a request's signing payload: the payload without the
\* method in front and the timestamp behind
PayloadPath(r) ==
    LET h == r.config.headers
        msg == h["x-api-signature"].msg
    IN  SubSeq(msg, Len(r.config.method) + 1,
               Len(msg) - Len(numberToString(h["x-api-timestamp"])))

\* C5: every request that leaves an interceptor carries the four headers:
\* Content-Type application/json, the client's API key verbatim, a timestamp,
\* and as signature the HMAC-SHA256 under the client's secret of the
\* upper-cased method, the transmitted path and the decimal string of the
\* timestamp sent in that same request.
C5_EveryRequestSigned ==
    \A r \in Wire :
        LET h == r.config.headers IN
        /\ AuthHeaders \subseteq DOMAIN h
        /\ h["Content-Type"] = "application/json"
        /\ h["x-api-key"] = apiKey(r.client)
        /\ h["x-api-signature"] =
              createHmac(apiSecret(r.client),
                         toUpperCase(r.config.method)
                         \o TransmittedPath(r.client, r.config)
                         \o numberToString(h["x-api-timestamp"]))

\* two requests of different clients are on record, a GET and a POST, signed
\* at different milliseconds
C5_Witness ==
    /\ sent # <<>> /\ prevSent # <<>>
    /\ sent[1].client # prevSent[1].client
    /\ sent[1].config.method = <<"p","o","s","t">>
    /\ prevSent[1].config.method = <<"g","e","t">>
    /\ sent[1].config.headers["x-api-timestamp"]
         # prevSent[1].config.headers["x-api-timestamp"]

\* C6: the path in the signing payload is the transmitted path, character for
\* character; every payload path carries the version prefix once; query
\* parameters are folded into the URL once, in entry order, an array as a
\* bracketed, quoted, comma-joined list, and are no longer on the request.
C6_SignedPathIsTransmittedPath ==
    \A r \in Wire :
        /\ PayloadPath(r) = TransmittedPath(r.client, r.config)
        /\ startsWith(PayloadPath(r), <<"/","v","1","/">>)
        /\ ~startsWith(PayloadPath(r), <<"/","v","1","/","v","1">>)
        /\ ~r.config.params.set
        /\ r.request.params.set =>
              r.config.url = r.request.url \o <<"?">> \o
                  join([i \in 1..Len(r.request.params.entries) |->
                          stringifyKeyValuePair(r.request.params.entries[i])],
                       <<"&">>)
        /\ r.request.params = Params(<<<<<<"s","y","m","b","o","l","s">>, Arr(<<<<"B","T","C","U","S","D","T">>, <<"B","N","B","B","T","C">>>>)>>>>)
           /\ r.request.url = <<"/","t","r","a","d","e","s","/","p","a","i","r","s">> =>
              TransmittedPath(r.client, r.config)
                = <<"/","v","1","/","t","r","a","d","e","s","/","p","a","i","r","s","?","s","y","m","b","o","l","s","=","%","5","B","%","2","2","B","T","C","U","S","D","T","%","2","2","%","2","C","%","2","2","B","N","B","B","T","C","%","2","2","%","5","D">>

\* a request with an array parameter and one of the first revision with a
\* query string in its URL are on record
C6_Witness ==
    /\ sent # <<>> /\ prevSent # <<>>
    /\ sent[1].request.params.set
    /\ \E i \in 1..Len(sent[1].request.params.entries) :
          sent[1].request.params.entries[i][2].array
    /\ prevSent[1].client = 1
    /\ Contains(prevSent[1].config.url, <<"?">>)

\* whether two requests on record are the same call of the same client
SameRequest(r1, r2) == r1.client = r2.client /\ r1.request = r2.request

\* C7, read to the letter: two identical requests issued at different instants, however
\* close, bear different timestamps and different signatures.
C7_FreshAtEveryInstant ==
    \A r1, r2 \in Wire :
        SameRequest(r1, r2) /\ r1.at # r2.at =>
            /\ r1.config.headers["x-api-timestamp"]
                 # r2.config.headers["x-api-timestamp"]
            /\ r1.config.headers["x-api-signature"]
                 # r2.config.headers["x-api-signature"]

\* C7: the timestamp of a request is the clock's whole millisecond when it is
\* signed; two identical requests bear the same signature exactly when they
\* bear the same timestamp.
C7_FreshPerMillisecond ==
    /\ \A r \in Wire :
          r.config.headers["x-api-timestamp"]
            = r.at.seconds * MsPerSecond + r.at.micros \div UsPerMs
    /\ \A r1, r2 \in Wire :
          SameRequest(r1, r2) =>
              ((r1.config.headers["x-api-timestamp"]
                  = r2.config.headers["x-api-timestamp"])
               <=> (r1.config.headers["x-api-signature"]
                      = r2.config.headers["x-api-signature"]))

\* the same call twice, in different milliseconds, with different signatures
C7_Witness ==
    /\ sent # <<>> /\ prevSent # <<>>
    /\ SameRequest(sent[1], prevSent[1])
    /\ sent[1].at.micros \div UsPerMs # prevSent[1].at.micros \div UsPerMs
    /\ sent[1].config.headers["x-api-signature"]
         # prevSent[1].config.headers["x-api-signature"]

\* the hosts the clients are constructed for
Hosts == {baseURL(staging).host : staging \in BOOLEAN}

\* C11: no request on the wire has the secret of any client in its URL, in a
\* header or in its body: the headers are the four of the interceptor, the
\* key header is the API key, the body is the caller's, and the secret occurs
\* only as the key of the HMAC that is the signature.
C11_SecretNeverTransmitted ==
    \A r \in Wire : \A c \in Clients :
        LET secret == apiSecret(c)
            h == r.config.headers
        IN  /\ r.host \in Hosts
            /\ ~Contains(r.config.url, secret)
            /\ ~Contains(TransmittedPath(r.client, r.config), secret)
            /\ ~r.config.params.set
            /\ DOMAIN h = AuthHeaders
            /\ h["Content-Type"] = "application/json"
            /\ h["x-api-key"] = apiKey(r.client)
            /\ ~Contains(h["x-api-key"], secret)
            /\ ~Contains(numberToString(h["x-api-timestamp"]), secret)
            /\ h["x-api-signature"].alg = "sha256"
            /\ h["x-api-signature"].key = apiSecret(r.client)
            /\ ~Contains(h["x-api-signature"].msg, secret)
            /\ r.config.data = r.request.data
            /\ \A i \in 1..Len(r.config.data) :
                  /\ ~Contains(r.config.data[i][1], secret)
                  /\ ~Contains(r.config.data[i][2], secret)

\* a POST with a body of one client and a request with folded query
\* parameters of another are on the wire, each signed under its own secret
C11_Witness ==
    /\ sent # <<>> /\ prevSent # <<>>
    /\ sent[1].client # prevSent[1].client
    /\ sent[1].config.method = <<"p","o","s","t">>
    /\ Len(sent[1].config.data) > 0
    /\ prevSent[1].request.params.set
    /\ sent[1].config.headers["x-api-signature"].key = apiSecret(sent[1].client)
    /\ prevSent[1].config.headers["x-api-signature"].key
         = apiSecret(prevSent[1].client)

-----------------------------------------------------------------------------
(* Claims about lookups and errors *)

\* the lookups over a fetched collection, and the field each one matches on
LookupOps == {"getCurrencyByCode", "getTradeById"}

LookupField(op) == IF op = "getCurrencyByCode" THEN "code" ELSE "id"

\* the call of slot s completes in this step, from the cache or on a reply
Completes(s) ==
    /\ calls[s].phase \in {"idle", "awaiting"}
    /\ calls'[s].phase \in {"done", "failed"}

\* the collection the lookup completing in slot s got hold of: the fresh cache
\* entry it found, or the body of the successful response to its request;
\* <<>> when its request failed
Obtained(s) ==
    IF calls'[s].reply = <<>>
    THEN <<EntryOf(calls'[s].client, calls'[s].key)[1].value>>
    ELSE LET response == calls'[s].reply[1].response
         IN  IF response # <<>> /\ response[1].status \in 200..299
             THEN <<response[1].data[1]>>
             ELSE <<>>

\* the positions in a list whose field equals the value wanted
Matches(list, field, wanted) ==
    {i \in 1..Len(list) : list[i][field] = wanted}

\* C8: a lookup (getCurrencyByCode, getTradeById) whose collection was
\* obtained completes normally; its result is the first element with that
\* code / id when there is one, and the absent value when there is none.
C8_SoftMiss ==
    [][\A s \in Slots :
        (Completes(s) /\ calls'[s].op \in LookupOps /\ Obtained(s) # <<>>)
        => LET list == Obtained(s)[1]
               m == Matches(list, LookupField(calls'[s].op), calls'[s].arg)
           IN  /\ calls'[s].phase = "done"
               /\ calls'[s].error = <<>>
               /\ calls'[s].result =
                    << IF m = {} THEN <<>>
                       ELSE <<list[CHOOSE i \in m : \A j \in m : i <= j]>> >>
      ]_vars

\* the lookup of DOGE in a fetched list of BTC and NGNX has returned the
\* absent value, and a lookup of a trade that is there has returned it
C8_Witness ==
    \E s1, s2 \in Slots :
        /\ calls[s1].phase = "done"
        /\ calls[s1].op = "getCurrencyByCode"
        /\ calls[s1].arg = DOGE.code
        /\ calls[s1].reply # <<>>
        /\ calls[s1].reply[1] = Success(<<BTC, NGNX>>)
        /\ calls[s1].result = << <<>> >>
        /\ calls[s2].phase = "done"
        /\ calls[s2].op = "getTradeById"
        /\ calls[s2].result = << <<[id |-> <<"t","2">>]>> >>

\* C9: a call whose signed request is answered with a non-success response
\* that has a body fails with a ServerError carrying the body's message, the
\* body as data and the response's status code; a failure without a body
\* reaches the caller as it is; the request is not sent again.
C9_ServerErrorCarriesResponse ==
    [][\A s \in Slots :
        (Completes(s) /\ calls'[s].reply # <<>> /\ Obtained(s) = <<>>)
        => LET reply == calls'[s].reply[1]
               response == reply.response
           IN  /\ calls'[s].phase = "failed"
               /\ calls'[s].result = <<>>
               /\ net'[s] = <<>>
               /\ \A o \in Slots \ {s} : net'[o] = net[o]
               /\ IF response # <<>> /\ response[1].data # <<>>
                  THEN calls'[s].error =
                         <<ServerError(response[1].data[1].message,
                                       response[1].data,
                                       <<response[1].status>>)>>
                  ELSE calls'[s].error =
                         <<AxiosError(reply.message, response)>>
      ]_vars

-----------------------------------------------------------------------------
(* The methods built on getCurrencyByCode: createQuote, trade, getNetworks *)

\* the error of reading a property of undefined (sourceCurrency.id with no
\* sourceCurrency)
TypeError ==
    [name |-> "TypeError",
     message |-> <<"Cannot read properties of undefined (reading 'id')">>]

\* createQuote sending its request whether or not the currencies were found
createQuote_then_SendsAnyway(sourceCurrency, targetCurrency, side, amount) ==
    Resolved(createQuoteRequest(
                IF sourceCurrency = <<>> THEN <<"u","n","d","e","f","i","n","e","d">> ELSE sourceCurrency[1].id,
                IF targetCurrency = <<>> THEN <<"u","n","d","e","f","i","n","e","d">> ELSE targetCurrency[1].id,
                side, amount))

\* createQuote, after both lookups are awaited: the request it posts, or the
\* TypeError of reading .id of a currency that was not found
createQuote_then(sourceCurrency, targetCurrency, side, amount) ==
    IF sourceCurrency = <<>> \/ targetCurrency = <<>>
    THEN Rejected(TypeError)
    ELSE Resolved(createQuoteRequest(sourceCurrency[1].id, targetCurrency[1].id,
                                     side, amount))

\* getNetworks, after the lookup is awaited
getNetworks_then(currency) ==
    IF currency = <<>>
    THEN Rejected(TypeError)
    ELSE Resolved(getNetworksRequest(currency[1].id))

\* trade accepting one and the same quote whatever createQuote returned
trade_then_FixedQuote(quote) == acceptQuote(<<"q","7">>)

\* trade, after createQuote is awaited: acceptQuote(quote.id)
trade_then(quote) == acceptQuote(quote.id)

\* the calls of the three methods, and their arguments
ChainOps == {"createQuote", "trade", "getNetworks"}

\* at most this set of slots runs these methods
ChainSlots == {1, 2}

QuotePairs == {<<BTC.code, NGNX.code>>, <<BTC.code, DOGE.code>>,
               <<DOGE.code, BTC.code>>}

Sides == {<<"B","U","Y">>}

\* the bodies the remote service answers with: a quote, an accepted trade,
\* the networks of a currency
QuoteBodies == {[id |-> <<"q","7">>], [id |-> <<"q","8">>]}

AcceptBodies == {[status |-> <<"A","C","C","E","P","T","E","D">>]}

NetworkBodies == {<<<<"B","T","C">>>>}

\* the local variables of a running call: the codes to resolve, the results
\* of the lookups awaited so far, the await it is suspended at, the quote
\* createQuote returned to trade, and the requests it has handed to the HTTP
\* client
Frame(codes, side, amount) ==
    [codes |-> codes, found |-> <<>>, side |-> side, amount |-> amount,
     step |-> "lookup", quote |-> <<>>, requests |-> <<>>]

\* the call suspended at the await of `request`
Sending(call, step, request) ==
    [call EXCEPT !.phase = "awaiting",
                 !.arg = <<[call.arg[1] EXCEPT !.step = step,
                                               !.requests = Append(@, request)]>>]

\* the call rejected with `error`: of its frame only the arguments remain
Failing(call, error) ==
    [call EXCEPT !.phase = "failed", !.arg = <<[codes |-> call.arg[1].codes]>>,
                 !.error = error]

\* the call resolved with `value`
Returning(call, value) ==
    [call EXCEPT !.phase = "done", !.arg = <<[codes |-> call.arg[1].codes]>>,
                 !.result = <<value>>]

\* the step after `call` (with `out` the request it hands to the HTTP
\* client, if any) once the currency list of its pending lookup is there
AfterLookup(call, currencies) ==
    LET f == call.arg[1]
        looked == getCurrencyByCode_then(currencies, f.codes[Len(f.found) + 1])
    IN  IF ~looked.ok
        THEN [call |-> Failing(call, looked.error), out |-> <<>>]
        ELSE LET g == [f EXCEPT !.found = Append(@, looked.value[1])]
                 resumed == [call EXCEPT !.arg = <<g>>]
                 request ==
                     IF call.op = "getNetworks"
                     THEN getNetworks_then(g.found[1])
                     ELSE createQuote_then(g.found[1], g.found[Len(g.found)],
                                           g.side, g.amount)
             IN  IF Len(g.found) < Len(g.codes)
                 THEN [call |-> [resumed EXCEPT !.phase = "ready"], out |-> <<>>]
                 ELSE IF request.ok
                 THEN [call |-> Sending(resumed,
                                        IF call.op = "getNetworks"
                                        THEN "networks" ELSE "quote",
                                        request.value[1]),
                       out |-> request.value]
                 ELSE [call |-> Failing(resumed, request.error), out |-> <<>>]

\* the request that leaves slot s for `out`
Outbound(c, out) ==
    IF out = <<>> THEN <<>> ELSE <<Interceptor(c, out[1], DateNow)>>

\* the pending getCurrencyByCode of `call`, up to its first await that has to
\* wait: a fresh cache entry is searched at once, otherwise the producer
\* sends GET /v1/currencies
Lookup(s, call) ==
    LET hit == getOrSet_lookup(entries[cacheService(call.client)],
                               call.key, seconds)
        after == AfterLookup(call, hit[1])
    IN  /\ IF hit # <<>>
           THEN /\ calls' = [calls EXCEPT ![s] = after.call]
                /\ net' = [net EXCEPT ![s] = Outbound(call.client, after.out)]
           ELSE /\ calls' = [calls EXCEPT ![s] =
                        Sending([call EXCEPT !.invoked = @ + 1], "lookup",
                                getCurrenciesRequest)]
                /\ net' = [net EXCEPT ![s] =
                        Outbound(call.client, <<getCurrenciesRequest>>)]
        /\ UNCHANGED <<seconds, entries>>
        /\ UNCHANGED signVars

\* a method is called: it runs up to its first lookup
StartChain(s, c, op, frame) ==
    /\ calls[s].phase = "idle"
    /\ Lookup(s, [Idle EXCEPT !.client = c, !.op = op,
                              !.key = getCurrencies_args.key,
                              !.ttl = getCurrencies_args.ttl,
                              !.arg = <<frame>>])

createQuote(s, c, source, target, side, amount) ==
    StartChain(s, c, "createQuote", Frame(<<source, target>>, side, amount))

trade(s, c, source, target, side, amount) ==
    StartChain(s, c, "trade", Frame(<<source, target>>, side, amount))

getNetworks(s, c, currencyCode) ==
    StartChain(s, c, "getNetworks", Frame(<<currencyCode>>, <<>>, 0))

\* createQuote goes on to its second getCurrencyByCode
Resume(s) ==
    /\ calls[s].phase = "ready"
    /\ Lookup(s, calls[s])

\* the remote service answers the request the call of slot s awaits
Answer(s, reply) ==
    LET call == [calls[s] EXCEPT !.reply = <<reply>>]
        f == call.arg[1]
        settled == HttpSettle(reply)
        produced == getCurrencies_producer(settled)
        after == AfterLookup(call, produced.value[1])
        quote == settled.value[1].data[1]
    IN  /\ net[s] # <<>>
        /\ calls[s].op \in ChainOps
        /\ IF f.step = "lookup"
           THEN IF produced.ok
                THEN /\ entries' = [entries EXCEPT ![cacheService(call.client)] =
                            getOrSet_store(@, call.key, produced.value[1],
                                           seconds, call.ttl)]
                     /\ calls' = [calls EXCEPT ![s] = after.call]
                     /\ net' = [net EXCEPT ![s] = Outbound(call.client, after.out)]
                ELSE /\ calls' = [calls EXCEPT ![s] = Failing(call, produced.error)]
                     /\ net' = [net EXCEPT ![s] = <<>>]
                     /\ UNCHANGED entries
           ELSE /\ UNCHANGED entries
                /\ IF ~settled.ok
                   THEN /\ calls' = [calls EXCEPT ![s] = Failing(call, settled.error)]
                        /\ net' = [net EXCEPT ![s] = <<>>]
                   ELSE IF f.step = "quote" /\ call.op = "trade"
                   THEN /\ calls' = [calls EXCEPT ![s] =
                               Sending([call EXCEPT !.arg = <<[f EXCEPT !.quote = <<quote>>]>>],
                                       "accept", trade_then(quote))]
                        /\ net' = [net EXCEPT ![s] =
                               Outbound(call.client, <<trade_then(quote)>>)]
                   ELSE /\ calls' = [calls EXCEPT ![s] = Returning(call, quote)]
                        /\ net' = [net EXCEPT ![s] = <<>>]
        /\ UNCHANGED seconds
        /\ UNCHANGED signVars

\* the bodies a successful answer to the awaited request may have
AnswerSuccess(s) ==
    /\ calls[s].op \in ChainOps
    /\ calls[s].phase = "awaiting"
    /\ \/ /\ calls[s].arg[1].step = "lookup"
          /\ \E data \in CurrencyLists : Answer(s, Success(data))
       \/ /\ calls[s].arg[1].step = "quote"
          /\ \E data \in QuoteBodies : Answer(s, Success(data))
       \/ /\ calls[s].arg[1].step = "accept"
          /\ \E data \in AcceptBodies : Answer(s, Success(data))
       \/ /\ calls[s].arg[1].step = "networks"
          /\ \E data \in NetworkBodies : Answer(s, Success(data))

AnswerFailure(s) ==
    /\ calls[s].op \in ChainOps
    /\ calls[s].phase = "awaiting"
    /\ \E reply \in CacheFailures : Answer(s, reply)

\* the chain machine: createQuote, trade and getNetworks of one client
ChainNext ==
    \/ Advance
    \/ \E s \in ChainSlots, p \in QuotePairs, side \in Sides, amount \in Amounts :
          createQuote(s, 1, p[1], p[2], side, amount)
    \/ \E s \in ChainSlots, p \in QuotePairs, side \in Sides, amount \in Amounts :
          trade(s, 1, p[1], p[2], side, amount)
    \/ \E s \in ChainSlots, code \in Codes : getNetworks(s, 1, code)
    \/ \E s \in ChainSlots : Resume(s)
    \/ \E s \in ChainSlots : AnswerSuccess(s)
    \/ \E s \in ChainSlots : AnswerFailure(s)
    \/ \E s \in ChainSlots : Return(s)

SpecChain == Init /\ [][ChainNext]_vars

-----------------------------------------------------------------------------
(* Claims about createQuote, trade and getNetworks *)

\* the kinds of request these methods send
IsQuote(request) ==
    request.method = <<"p","o","s","t">> /\ request.url = <<"/","v","1","/","t","r","a","d","e","s","/","q","u","o","t","e">>

IsAccept(request) ==
    request.method = <<"p","o","s","t">> /\ startsWith(request.url, <<"/","v","1","/","t","r","a","d","e","s","/","q","u","o","t","e","/">>)

IsNetworks(request) ==
    /\ request.method = <<"g","e","t">>
    /\ startsWith(request.url, <<"/","v","1","/","c","u","r","r","e","n","c","i","e","s","/">>)
    /\ Len(request.url) > Len(<<"/","n","e","t","w","o","r","k","s">>)
    /\ SubSeq(request.url, Len(request.url) - Len(<<"/","n","e","t","w","o","r","k","s">>) + 1,
              Len(request.url)) = <<"/","n","e","t","w","o","r","k","s">>

\* the call of slot s takes a step / takes it on the answer to its request
Steps(s) == calls'[s].phase # calls[s].phase \/ calls'[s].arg # calls[s].arg

Answered(s) == net[s] # <<>> /\ Steps(s)

\* the call of slot s is running, with its frame
Running(s) == calls[s].op \in ChainOps /\ calls[s].phase \in {"ready", "awaiting"}

\* C12: a trade call sends the accept request POST /v1/trades/quote/{id} only
\* on the successful answer to its own quote request POST /v1/trades/quote,
\* with the id of the quote in that answer, and sends it once; when a request
\* of the call fails, or a currency is not found, the call fails with that
\* error and sends nothing more.
C12_AcceptFollowsQuote ==
    /\ [](\A s \in Slots :
            (Running(s) /\ calls[s].op = "trade")
            => LET f == calls[s].arg[1]
                   reqs == f.requests
               IN  \A i \in 1..Len(reqs) :
                      IsAccept(reqs[i])
                      => /\ i = Len(reqs) /\ i > 1
                         /\ IsQuote(reqs[i - 1])
                         /\ f.quote # <<>>
                         /\ reqs[i].url = <<"/","v","1","/","t","r","a","d","e","s","/","q","u","o","t","e","/">> \o f.quote[1].id
                         /\ net[s] # <<>>
                         /\ net[s][1].url = reqs[i].url)
    /\ [][\A s \in Slots :
            (calls'[s].op = "trade" /\ Steps(s))
            => /\ (net'[s] # <<>> /\ IsAccept(net'[s][1]))
                  => /\ Answered(s)
                     /\ IsQuote(net[s][1])
                     /\ calls'[s].reply[1].response # <<>>
                     /\ calls'[s].reply[1].response[1].status \in 200..299
                     /\ net'[s][1].url = <<"/","v","1","/","t","r","a","d","e","s","/","q","u","o","t","e","/">>
                          \o calls'[s].reply[1].response[1].data[1].id
               /\ calls'[s].phase = "failed"
                  => /\ net'[s] = <<>>
                     /\ calls[s].phase # "idle" /\ calls[s].arg[1].step # "accept"
                        => \A i \in 1..Len(calls[s].arg[1].requests) :
                              ~IsAccept(calls[s].arg[1].requests[i])
                     /\ calls'[s].error =
                          IF Answered(s) /\ ~HttpSettle(calls'[s].reply[1]).ok
                          THEN HttpSettle(calls'[s].reply[1]).error
                          ELSE <<TypeError>>
               /\ (Answered(s) /\ ~HttpSettle(calls'[s].reply[1]).ok)
                  => calls'[s].phase = "failed"
         ]_vars

\* one trade call awaits the answer to its accept request for quote q8, the
\* quote it was answered with; another has failed with a ServerError and has
\* no request out
C12_Witness ==
    \E s1, s2 \in Slots :
        /\ calls[s1].op = "trade" /\ calls[s1].phase = "awaiting"
        /\ calls[s1].arg[1].step = "accept"
        /\ calls[s1].arg[1].quote = <<[id |-> <<"q","8">>]>>
        /\ net[s1] # <<>>
        /\ net[s1][1].url = <<"/","v","1","/","t","r","a","d","e","s","/","q","u","o","t","e","/","q","8">>
        /\ calls[s2].op = "trade" /\ calls[s2].phase = "failed"
        /\ calls[s2].error[1].name = "ServerError"
        /\ net[s2] = <<>>


\* the call of slot s gets the currency list of its last lookup in this
\* step: from a fresh cache entry, or from the successful answer to its GET
\* /v1/currencies
LastLookup(s) ==
    /\ calls'[s].op \in ChainOps
    /\ Steps(s)
    /\ IF calls[s].phase = "idle"
       THEN calls'[s].op = "getNetworks"
       ELSE /\ Running(s)
            /\ calls[s].arg[1].step = "lookup"
            /\ Len(calls[s].arg[1].found) = Len(calls[s].arg[1].codes) - 1
    /\ IF net[s] # <<>>
       THEN /\ calls'[s].reply[1].response # <<>>
            /\ calls'[s].reply[1].response[1].status \in 200..299
       ELSE FreshAt(EntryOf(calls'[s].client, "currencies"), seconds)

\* the list that lookup searches
LookedUp(s) ==
    IF net[s] # <<>>
    THEN calls'[s].reply[1].response[1].data[1]
    ELSE EntryOf(calls'[s].client, "currencies")[1].value

\* the requests a running call has handed to the HTTP client that are not
\* the fetch of the currency list
Onward(call) ==
    {i \in 1..Len(call.arg[1].requests) :
        \/ IsQuote(call.arg[1].requests[i])
        \/ IsNetworks(call.arg[1].requests[i])}

\* C13: once createQuote (alone or inside trade) or getNetworks has the list
\* of its last lookup: if a code of the call is not in the list it was looked
\* up in, the call fails with a TypeError and has sent and sends no POST
\* /v1/trades/quote and no GET /v1/currencies/{id}/networks; if every code
\* was found, it sends that request once, with the ids of the first
\* currencies that have the codes.
C13_AbsentCurrencyFailsCall ==
    /\ [](\A s \in Slots :
            Running(s)
            => /\ Cardinality(Onward(calls[s])) <= 1
               /\ \A i \in 1..Len(calls[s].arg[1].found) :
                     calls[s].arg[1].found[i] # <<>>
                     => calls[s].arg[1].found[i][1].code
                          = calls[s].arg[1].codes[i])
    /\ [][\A s \in Slots :
            LastLookup(s)
            => LET codes == calls'[s].arg[1].codes
                   prior == IF calls[s].phase = "idle" THEN <<>>
                            ELSE calls[s].arg[1].found
                   list == LookedUp(s)
                   m == Matches(list, "code", codes[Len(codes)])
                   last == list[CHOOSE i \in m : \A j \in m : i <= j]
               IN  IF m = {} \/ \E i \in 1..Len(prior) : prior[i] = <<>>
                   THEN /\ calls'[s].phase = "failed"
                        /\ calls'[s].error = <<TypeError>>
                        /\ net'[s] = <<>>
                        /\ calls[s].phase # "idle" => Onward(calls[s]) = {}
                   ELSE /\ calls'[s].phase = "awaiting"
                        /\ Cardinality(Onward(calls'[s])) = 1
                        /\ net'[s] # <<>>
                        /\ IF calls'[s].op = "getNetworks"
                           THEN /\ net'[s][1].method = <<"g","e","t">>
                                /\ net'[s][1].url
                                     = <<"/","v","1","/","c","u","r","r","e","n","c","i","e","s","/">> \o last.id \o <<"/","n","e","t","w","o","r","k","s">>
                           ELSE /\ net'[s][1].method = <<"p","o","s","t">>
                                /\ net'[s][1].url = <<"/","v","1","/","t","r","a","d","e","s","/","q","u","o","t","e">>
                                /\ net'[s][1].data[1] = <<<<"s","o","u","r","c","e","I","d">>, prior[1][1].id>>
                                /\ net'[s][1].data[2] = <<<<"t","a","r","g","e","t","I","d">>, last.id>>
                                /\ Len(net'[s][1].data) = 4
         ]_vars

\* createQuote(BTC, DOGE) has failed with a TypeError against a list without
\* DOGE, with no request out, while getNetworks(BTC) awaits the answer to its
\* request for the networks of c1
C13_Witness ==
    \E s1, s2 \in Slots :
        /\ calls[s1].op = "createQuote" /\ calls[s1].phase = "failed"
        /\ calls[s1].arg[1].codes = <<BTC.code, DOGE.code>>
        /\ calls[s1].error = <<TypeError>>
        /\ net[s1] = <<>>
        /\ EntryOf(1, "currencies") # <<>>
        /\ EntryOf(1, "currencies")[1].value = <<BTC, NGNX>>
        /\ calls[s2].op = "getNetworks" /\ calls[s2].phase = "awaiting"
        /\ calls[s2].arg[1].step = "networks"
        /\ net[s2] # <<>>
        /\ net[s2][1].url = <<"/","v","1","/","c","u","r","r","e","n","c","i","e","s","/","c","1","/","n","e","t","w","o","r","k","s">>

=============================================================================
